---- MODULE Spec2Model ----
(***************************************************************************)
(* Model of sheetsync-back: the ingestion endpoint of main.py (row hash,   *)
(* audit log, header mapping, HubSpot upsert through the retrying          *)
(* transport).  Text is a sequence of one-character strings, so that       *)
(* strip(), lower(), isalnum() and "|".join are computed, not assumed.     *)
(***************************************************************************)
EXTENDS Integers, Sequences, FiniteSets, TLC

(***************************************************************************)
(* Bounds of the model                                                     *)
(***************************************************************************)
\* number of ingest_rows calls received in one behaviour
MaxCalls == 3
\* longest header list / value list drawn for map_row_to_contact alone
MaxCols == 2

(***************************************************************************)
(* Text                                                                    *)
(***************************************************************************)
UpperChars == <<"A", "B", "C", "D", "E", "F", "G", "H", "I", "J", "K", "L", "M", "N", "O", "P", "Q", "R", "S", "T", "U", "V", "W", "X", "Y", "Z">>
LowerChars == <<"a", "b", "c", "d", "e", "f", "g", "h", "i", "j", "k", "l", "m", "n", "o", "p", "q", "r", "s", "t", "u", "v", "w", "x", "y", "z">>
DigitChars == <<"0", "1", "2", "3", "4", "5", "6", "7", "8", "9">>

Range(s) == {s[i] : i \in 1..Len(s)}

\* Python None where a str is optional (a cell value, a contact id).  It is a
\* one-element tuple holding a multi-character token, so it is comparable with
\* every text and equal to none.
None == <<"#None">>

\* Python None where a dict is optional (payload.mapping); dicts are functions
\* over string keys, so their None is one as well, over a key no dict uses.
NoneDict == [k \in {"#None"} |-> <<>>]

\* the empty dict {}
EmptyDict == [k \in {} |-> <<>>]

\* the upper-case letters, and the letters and digits, as sets
Uppers == Range(UpperChars)
Alnums == Range(UpperChars) \cup Range(LowerChars) \cup Range(DigitChars)

\* str.lower() on one character
lower_ch(c) ==
  IF c \in Uppers
    THEN LowerChars[CHOOSE i \in 1..Len(UpperChars) : UpperChars[i] = c]
    ELSE c

\* str.lower()
lower(s) == [i \in 1..Len(s) |-> lower_ch(s[i])]

\* str.isalnum() on one character
isalnum(c) == c \in Alnums

isspace(c) == c \in {" ", "\t", "\n", "\r"}

\* str.strip(): drop leading and trailing whitespace
RECURSIVE lstrip(_)
lstrip(s) == IF s # <<>> /\ isspace(Head(s)) THEN lstrip(Tail(s)) ELSE s

RECURSIVE rstrip(_)
rstrip(s) ==
  IF s # <<>> /\ isspace(s[Len(s)]) THEN rstrip(SubSeq(s, 1, Len(s) - 1)) ELSE s

\* mutant: only leading whitespace is removed
strip_leading_only(s) == lstrip(s)

strip(s) == rstrip(lstrip(s))

\* str(x) for the values that reach the service: text, or None
str(x) == IF x = None THEN <<"N", "o", "n", "e">> ELSE x

\* sep.join(parts)
RECURSIVE join(_, _)
join(sep, parts) ==
  IF parts = <<>> THEN <<>>
  ELSE IF Len(parts) = 1 THEN parts[1]
  ELSE parts[1] \o sep \o join(sep, Tail(parts))

(***************************************************************************)
(* Header mapping (main.py, "Helpers: cleaning + header mapping")          *)
(***************************************************************************)
Fields == {"email", "firstname", "lastname", "phone", "company"}

HEADER_ALIASES ==
  [email |-> {<<"e", "m", "a", "i", "l">>,
              <<"e", "-", "m", "a", "i", "l">>,
              <<"m", "a", "i", "l">>},
   firstname |-> {<<"f", "i", "r", "s", "t", " ", "n", "a", "m", "e">>,
                  <<"f", "i", "r", "s", "t", "n", "a", "m", "e">>,
                  <<"f", "i", "r", "s", "t", "_", "n", "a", "m", "e">>,
                  <<"g", "i", "v", "e", "n", " ", "n", "a", "m", "e">>},
   lastname |-> {<<"l", "a", "s", "t", " ", "n", "a", "m", "e">>,
                 <<"l", "a", "s", "t", "n", "a", "m", "e">>,
                 <<"l", "a", "s", "t", "_", "n", "a", "m", "e">>,
                 <<"s", "u", "r", "n", "a", "m", "e">>},
   phone |-> {<<"p", "h", "o", "n", "e">>,
              <<"p", "h", "o", "n", "e", " ", "n", "u", "m", "b", "e", "r">>,
              <<"m", "o", "b", "i", "l", "e">>,
              <<"m", "o", "b", "i", "l", "e", " ", "p", "h", "o", "n", "e">>},
   company |-> {<<"c", "o", "m", "p", "a", "n", "y">>,
                <<"a", "c", "c", "o", "u", "n", "t">>,
                <<"o", "r", "g", "a", "n", "i", "s", "a", "t", "i", "o", "n">>,
                <<"o", "r", "g", "a", "n", "i", "z", "a", "t", "i", "o", "n">>}]

\* "".join(ch for ch in str(s).strip().lower() if ch.isalnum())
_norm(s) == SelectSeq(lower(strip(str(s))), isalnum)

\* list.index(x): position of the first element equal to x
index(seq, x) ==
  CHOOSE i \in 1..Len(seq) : seq[i] = x /\ \A j \in 1..(i - 1) : seq[j] # x

\* vals = ["" if v is None else str(v) for v in values]
vals_of(values) ==
  [i \in 1..Len(values) |-> IF values[i] = None THEN <<>> ELSE str(values[i])]

\* the "if mapping:" branch: one canonical field resolved through the mapping
explicit_value(headers, vals, mapping, prop) ==
  LET hnorm  == [i \in 1..Len(headers) |-> _norm(headers[i])]
      wanted == _norm(mapping[prop])
  IN IF prop \in DOMAIN mapping /\ wanted \in Range(hnorm)
          /\ index(hnorm, wanted) <= Len(vals)
       THEN vals[index(hnorm, wanted)]
       ELSE <<>>

\* mutant: the loop over the headers has no break, so the last alias header wins
heuristic_value_last_match(headers, vals, prop) ==
  LET hnorm   == [i \in 1..Len(headers) |-> _norm(headers[i])]
      aliases == {_norm(a) : a \in HEADER_ALIASES[prop]}
      hits    == {i \in 1..Len(headers) : hnorm[i] \in aliases /\ i <= Len(vals)}
      last    == CHOOSE i \in hits : \A j \in hits : j <= i
  IN IF hits # {} THEN vals[last] ELSE <<>>

\* the "else" branch: one canonical field resolved through HEADER_ALIASES
heuristic_value(headers, vals, prop) ==
  LET hnorm   == [i \in 1..Len(headers) |-> _norm(headers[i])]
      aliases == {_norm(a) : a \in HEADER_ALIASES[prop]}
      hits    == {i \in 1..Len(headers) : hnorm[i] \in aliases}
      first   == CHOOSE i \in hits : \A j \in hits : i <= j
  IN IF hits # {} /\ first <= Len(vals) THEN vals[first] ELSE <<>>

\* "if mapping:" is false for None and for the empty dict
mapping_truthy(mapping) == mapping # NoneDict /\ DOMAIN mapping # {}

\* mutant: a field the mapping leaves unresolved falls back to the aliases
map_row_to_contact_fallback(headers, values, mapping) ==
  LET vals == vals_of(values)
      raw  == [prop \in Fields |->
                 IF mapping_truthy(mapping)
                      /\ Len(explicit_value(headers, vals, mapping, prop)) > 0
                   THEN explicit_value(headers, vals, mapping, prop)
                   ELSE heuristic_value(headers, vals, prop)]
      contact == [raw EXCEPT !["email"] = lower(strip(@))]
      kept == {k \in Fields : Len(contact[k]) > 0}
  IN [k \in kept |-> contact[k]]

map_row_to_contact(headers, values, mapping) ==
  LET vals == vals_of(values)
      raw  == [prop \in Fields |->
                 IF mapping_truthy(mapping)
                   THEN explicit_value(headers, vals, mapping, prop)
                   ELSE heuristic_value(headers, vals, prop)]
      contact == [raw EXCEPT !["email"] = lower(strip(@))]
      kept == {k \in Fields : Len(contact[k]) > 0}
  IN [k \in kept |-> contact[k]]

(***************************************************************************)
(* Configuration and inputs                                                *)
(***************************************************************************)
\* os.getenv("BRIDGE_SECRET", "change-me")
BRIDGE_SECRET == "change-me"

\* values of the X-Bridge-Secret header that callers send
Secrets == {"change-me", "wrong"}

\* the worker threads that run the synchronous endpoint
Procs == {"w1", "w2"}

\* range(5) in _request_retry
RetryRange == 5

\* status codes HubSpot answers with
StatusCodes == {200, 404, 429, 500}

\* rows submitted to /ingest/rows
RowA ==
  [headers |-> << <<"E", "m", "a", "i", "l">>, <<"C", "o", "m", "p", "a", "n", "y">> >>,
   values  |-> << <<" ", "A", "@", "b", ".", "c", "o", " ">>, <<"A", "c", "m", "e">> >>,
   mapping |-> NoneDict]
RowB ==
  [headers |-> << <<"E", "m", "a", "i", "l">>, <<"C", "o", "m", "p", "a", "n", "y">> >>,
   values  |-> << <<"a", "@", "b", ".", "c", "o">>, None >>,
   mapping |-> NoneDict]
RowC ==
  [headers |-> << <<"E", "m", "a", "i", "l">>, <<"F", "i", "r", "s", "t", " ", "N", "a", "m", "e">> >>,
   values  |-> << <<"a", "@", "b", ".", "c", "o">>, <<"A", "n", "n">> >>,
   mapping |-> [k \in {"lastname"} |-> <<"F", "i", "r", "s", "t", " ", "N", "a", "m", "e">>]]

Payload(i, row) ==
  [spreadsheetId |-> "excel-desktop", sheetName |-> "Sheet1", rowIndex |-> i,
   headers |-> row.headers, values |-> row.values, mapping |-> row.mapping]

Payloads == {Payload(0, RowA), Payload(1, RowA), Payload(0, RowB), Payload(0, RowC)}

(***************************************************************************)
(* State                                                                   *)
(***************************************************************************)
VARIABLES
  HUBSPOT_ACCESS_TOKEN, \* the configured token, "" when none is configured
  events,               \* the events table, in insertion (id) order
  crm,                  \* the contacts held by HubSpot, in creation order
  calls,                \* ingest_rows calls received so far
  submitted,            \* history: submissions that passed authentication
  pc,                   \* where each worker is in ingest_rows
  payload,              \* the IngestRowPayload of the call in progress
  resubmitted,          \* history: the submission had been made before
  r_hash,               \* local r_hash of ingest_rows
  contact,              \* local contact of ingest_rows
  call,                 \* the logical CRM call in progress (_request_retry)
  attempt,              \* loop variable of _request_retry
  r,                    \* local r of _request_retry: the last response
  retval,               \* what _request_retry returned, once it has
  tries,                \* history: HTTP requests sent for this logical call
  slept,                \* history: time.sleep durations (ms) of this logical call
  timedout,             \* history: attempt at which requests.request timed out
  searched,             \* history: the response the email search returned
  issued,               \* history: logical CRM calls issued by this ingest_rows
  http,                 \* history: HTTP requests sent by this ingest_rows
  pending,              \* arguments of the log_event to run, and what follows it
  logged,               \* history: actions this ingest_rows has logged
  result,               \* what the caller of ingest_rows received
  m_args,               \* arguments of a direct map_row_to_contact call
  m_called,             \* whether that call has been made
  m_contact,            \* its result
  h_args,               \* arguments of a direct row_hash call
  h_called,             \* whether that call has been made
  h_digest,             \* its result
  sheet,                \* the table the watched file holds: columns and rows
  file,                 \* the watched file on disk: exists, size, writing
  suffix,               \* the suffix of WATCH_FILE
  now,                  \* time.monotonic(), in ticks
  _last_event,          \* global _last_event of watch_excel.py, in ticks
  wpc,                  \* where the watchdog dispatcher thread is in handle_change
  polls,                \* iterations done by the loop of wait_until_stable
  last_size,            \* local last_size of wait_until_stable
  stable,               \* local stable of wait_until_stable
  streak,               \* history: latest consecutive polls that found the file
                        \* present with one same non-zero size
  copies,               \* iterations done by the loop of copy_to_temp
  tmp,                  \* the temp copy: "none", "whole" or "torn"
  df,                   \* what read_table_any returned to handle_change
  accepted,             \* history: the times of the last two accepted events
  last_dropped,         \* history: now - _last_event at the last dropped event
  sent,                 \* history: the accepted event led to a POST
  escaped               \* history: an exception left handle_change

globals == <<HUBSPOT_ACCESS_TOKEN, events, crm, calls, submitted>>
transport == <<call, attempt, r, retval, tries, slept, timedout>>
locals == <<pc, payload, resubmitted, r_hash, contact, searched, issued, http, pending,
            logged, result>>
mapvars == <<m_args, m_called, m_contact>>
hashvars == <<h_args, h_called, h_digest>>
watchvars == <<file, suffix, now, _last_event, wpc, polls, last_size, stable, streak,
               copies, tmp, df, accepted, last_dropped, sent, escaped>>
\* what the ingest service leaves alone
aside == <<mapvars, hashvars, sheet, watchvars>>
vars == <<globals, locals, transport, aside>>

(***************************************************************************)
(* Values of the locals                                                    *)
(***************************************************************************)
NoPayload ==
  [spreadsheetId |-> "", sheetName |-> "", rowIndex |-> 0,
   headers |-> <<>>, values |-> <<>>, mapping |-> NoneDict]

NoContact == EmptyDict

\* a logical CRM call: op is "search", "create" or "update"
NoCall == [op |-> "", email |-> <<>>, id |-> <<>>, props |-> EmptyDict]

\* a requests.Response: status_code, and of r.json() the "results" ids and "id"
NoResponse == [status_code |-> 0, results |-> <<>>, id |-> <<>>]

NoException == [type |-> "", status_code |-> 0, detail |-> ""]
HTTPException(status_code, detail) ==
  [type |-> "HTTPException", status_code |-> status_code, detail |-> detail]

NoUpsert == [action |-> "", id |-> <<>>]
NoResult == [kind |-> "", upsert |-> NoUpsert, exc |-> NoException]
Returned(kind, upsert) == [kind |-> kind, upsert |-> upsert, exc |-> NoException]
Raised(exc) == [kind |-> "error", upsert |-> NoUpsert, exc |-> exc]

NoPending == [action |-> "", hubspot_id |-> <<>>, detail |-> "", outcome |-> NoResult]

(***************************************************************************)
(* SQLite events table (main.py, "SQLite (idempotency + logs)")            *)
(***************************************************************************)
\* sha256 is taken as injective: the digest is modelled by the bytes fed to
\* the two h.update calls, one after the other
row_hash(headers, values) ==
  join(<<"|">>, [i \in 1..Len(headers) |-> str(headers[i])])
    \o join(<<"|">>, [i \in 1..Len(values) |-> str(values[i])])

\* mutant: events of a failed attempt do not count as processed
already_processed_unless_error(spreadsheet_id, sheet_name, row_index, h) ==
  \E i \in 1..Len(events) :
    /\ events[i].spreadsheet_id = spreadsheet_id
    /\ events[i].sheet_name = sheet_name
    /\ events[i].row_index = row_index
    /\ events[i].row_hash = h
    /\ events[i].action # "error"

\* mutant: the lookup compares the hash with the wrong column and never matches
already_processed_never(spreadsheet_id, sheet_name, row_index, h) ==
  \E i \in 1..Len(events) :
    /\ events[i].spreadsheet_id = spreadsheet_id
    /\ events[i].sheet_name = sheet_name
    /\ events[i].row_index = row_index
    /\ events[i].hubspot_id = h \o <<"#">>

\* mutant: the lookup only counts rows that reached the CRM (AND action IN
\* ('created', 'updated'))
already_processed_synced_only(spreadsheet_id, sheet_name, row_index, h) ==
  \E i \in 1..Len(events) :
    /\ events[i].spreadsheet_id = spreadsheet_id
    /\ events[i].sheet_name = sheet_name
    /\ events[i].row_index = row_index
    /\ events[i].row_hash = h
    /\ events[i].action \in {"created", "updated"}

\* mutant: the lookup reads only the latest event of the row (ORDER BY id
\* DESC LIMIT 1) and compares its hash
already_processed_latest_only(spreadsheet_id, sheet_name, row_index, h) ==
  \E i \in 1..Len(events) :
    /\ events[i].spreadsheet_id = spreadsheet_id
    /\ events[i].sheet_name = sheet_name
    /\ events[i].row_index = row_index
    /\ events[i].row_hash = h
    /\ \A j \in (i + 1)..Len(events) :
         \/ events[j].spreadsheet_id # spreadsheet_id
         \/ events[j].sheet_name # sheet_name
         \/ events[j].row_index # row_index

\* SELECT 1 FROM events WHERE spreadsheet_id=? AND sheet_name=? AND
\* row_index=? AND row_hash=? LIMIT 1
already_processed(spreadsheet_id, sheet_name, row_index, h) ==
  \E i \in 1..Len(events) :
    /\ events[i].spreadsheet_id = spreadsheet_id
    /\ events[i].sheet_name = sheet_name
    /\ events[i].row_index = row_index
    /\ events[i].row_hash = h

\* the row INSERTed by log_event; hubspot_id or "" turns None into ""
event_row(spreadsheet_id, sheet_name, row_index, h, action, hubspot_id, detail) ==
  [spreadsheet_id |-> spreadsheet_id, sheet_name |-> sheet_name,
   row_index |-> row_index, row_hash |-> h,
   hubspot_id |-> IF hubspot_id = None THEN <<>> ELSE hubspot_id,
   action |-> action, detail |-> detail]

(***************************************************************************)
(* HubSpot, as the client sees it: search by email, create, update         *)
(***************************************************************************)
ContactId(i) == <<"c", DigitChars[i + 1]>>

\* POST /crm/v3/objects/contacts/search, filter email EQ value
crm_search(store, email) ==
  LET hit(i) == "email" \in DOMAIN store[i] /\ store[i]["email"] = email
      found  == SelectSeq([i \in 1..Len(store) |-> i], hit)
  IN [k \in 1..Len(found) |-> ContactId(found[k])]

\* POST /crm/v3/objects/contacts
crm_create(store, props) == Append(store, props)

\* PATCH /crm/v3/objects/contacts/{contact_id}: named properties are replaced
crm_update(store, contact_id, props) ==
  [i \in 1..Len(store) |->
     IF ContactId(i) = contact_id
       THEN [k \in DOMAIN store[i] \cup DOMAIN props |->
               IF k \in DOMAIN props THEN props[k] ELSE store[i][k]]
       ELSE store[i]]

\* the response to one HTTP request that got the status code sc
response(store, c, sc) ==
  [status_code |-> sc,
   results |-> IF sc = 200 /\ c.op = "search" THEN crm_search(store, c.email) ELSE <<>>,
   id |-> IF sc = 200 /\ c.op = "create" THEN ContactId(Len(store) + 1)
          ELSE IF sc = 200 /\ c.op = "update" THEN c.id
          ELSE <<>>]

\* the contacts after that request
served(store, c, sc) ==
  IF sc = 200 /\ c.op = "create" THEN crm_create(store, c.props)
  ELSE IF sc = 200 /\ c.op = "update" THEN crm_update(store, c.id, c.props)
  ELSE store

(***************************************************************************)
(* HubSpot client with retries                                             *)
(***************************************************************************)
\* mutant: the token is not checked
hs_headers_never_raises == FALSE

\* _hs_headers raises when no token is configured
hs_headers_raises == HUBSPOT_ACCESS_TOKEN = ""

\* mutant: every status from 400 up is retried
returns_now_below_400(status_code) == status_code < 400

\* r.status_code < 500 and r.status_code != 429
returns_now(status_code) == status_code < 500 /\ status_code # 429

\* min(0.5 * (2 ** attempt), 6) seconds, in milliseconds
backoff_ms(n) == IF 500 * (2 ^ n) < 6000 THEN 500 * (2 ^ n) ELSE 6000

\* mutant: only server errors are raised
is_error_5xx(status_code) == status_code >= 500

\* r.status_code >= 400 in the three callers of the transport
is_error(status_code) == status_code >= 400

\* mutant: the id is read under a key the search results do not have
first_id_wrong_key(results) == None

\* results[0].get("id") if results else None
first_id(results) == IF Len(results) > 0 THEN results[1] ELSE None

\* evaluation of _request_retry(..., headers=_hs_headers(), ...): the argument
\* is evaluated first, so a missing token raises before the transport is entered
begin_call(p, c) ==
  IF hs_headers_raises
    THEN /\ pending' = [pending EXCEPT ![p] =
                [action |-> "error", hubspot_id |-> <<>>, detail |-> "repr(e)",
                 outcome |-> Raised(HTTPException(400, "HUBSPOT_ACCESS_TOKEN missing"))]]
         /\ pc' = [pc EXCEPT ![p] = "log"]
         /\ UNCHANGED transport
    ELSE /\ call' = [call EXCEPT ![p] = c]
         /\ attempt' = [attempt EXCEPT ![p] = 0]
         /\ r' = [r EXCEPT ![p] = NoResponse]
         /\ retval' = [retval EXCEPT ![p] = NoResponse]
         /\ tries' = [tries EXCEPT ![p] = 0]
         /\ slept' = [slept EXCEPT ![p] = <<>>]
         /\ timedout' = [timedout EXCEPT ![p] = 0]
         /\ pc' = [pc EXCEPT ![p] = "request"]
         /\ UNCHANGED pending

\* one iteration of the loop up to the test of the status: requests.request
request(p) ==
  /\ pc[p] = "request"
  /\ tries' = [tries EXCEPT ![p] = @ + 1]
  /\ http' = [http EXCEPT ![p] = @ + 1]
  /\ issued' = [issued EXCEPT ![p] = IF attempt[p] = 0 THEN Append(@, call[p]) ELSE @]
  /\ UNCHANGED <<HUBSPOT_ACCESS_TOKEN, events, calls, submitted, payload, resubmitted,
                 r_hash, contact, searched, logged, result, call, attempt, slept, aside>>
  /\ \/ \E status_code \in StatusCodes :
          /\ crm' = served(crm, call[p], status_code)
          /\ r' = [r EXCEPT ![p] = response(crm, call[p], status_code)]
          /\ retval' = [retval EXCEPT ![p] =
                IF returns_now(status_code)
                  THEN response(crm, call[p], status_code) ELSE @]
          /\ pc' = [pc EXCEPT ![p] =
                IF returns_now(status_code) THEN "returned" ELSE "sleep"]
          /\ UNCHANGED <<timedout, pending>>
     \/ \* timeout=30 expires: requests raises, nothing in _request_retry
        \* catches it, and the exception reaches the except of ingest_rows
        /\ timedout' = [timedout EXCEPT ![p] = tries[p] + 1]
        /\ pending' = [pending EXCEPT ![p] =
              [action |-> "error", hubspot_id |-> <<>>, detail |-> "repr(e)",
               outcome |-> Raised([type |-> "Timeout", status_code |-> 0, detail |-> ""])]]
        /\ pc' = [pc EXCEPT ![p] = "log"]
        /\ UNCHANGED <<crm, r, retval>>

\* the rest of the iteration: time.sleep, then the next iteration or, when
\* range(5) is used up, "return r"
backoff(p) ==
  /\ pc[p] = "sleep"
  /\ slept' = [slept EXCEPT ![p] = Append(@, backoff_ms(attempt[p]))]
  /\ IF attempt[p] + 1 < RetryRange
       THEN /\ attempt' = [attempt EXCEPT ![p] = @ + 1]
            /\ pc' = [pc EXCEPT ![p] = "request"]
            /\ UNCHANGED retval
       ELSE /\ retval' = [retval EXCEPT ![p] = r[p]]
            /\ pc' = [pc EXCEPT ![p] = "returned"]
            /\ UNCHANGED attempt
  /\ UNCHANGED <<globals, payload, resubmitted, r_hash, contact, searched, issued, http,
                 pending, logged, result, call, r, tries, timedout, aside>>

\* what ingest_rows does with an exception e raised inside its try block
raise_in_try(p, e) ==
  /\ pending' = [pending EXCEPT ![p] =
        [action |-> "error", hubspot_id |-> <<>>, detail |-> "repr(e)",
         outcome |-> Raised(e)]]
  /\ pc' = [pc EXCEPT ![p] = "log"]

\* mutant: the logged action does not look at res
upsert_returns_created(p, res) ==
  /\ pending' = [pending EXCEPT ![p] =
        [action |-> "created", hubspot_id |-> res.id, detail |-> "str(contact)",
         outcome |-> Returned("upsert", res)]]
  /\ pc' = [pc EXCEPT ![p] = "log"]

\* what ingest_rows does with the dict res that upsert_contact_to_hubspot returns
upsert_returns(p, res) ==
  /\ pending' = [pending EXCEPT ![p] =
        [action |-> IF res.action = "updated" THEN "updated"
                    ELSE IF res.action = "created" THEN "created" ELSE "unknown",
         hubspot_id |-> res.id, detail |-> "str(contact)",
         outcome |-> Returned("upsert", res)]]
  /\ pc' = [pc EXCEPT ![p] = "log"]

\* hubspot_find_contact_by_email after the transport returned, and the branch
\* of upsert_contact_to_hubspot on its result
hubspot_find_contact_by_email(p) ==
  /\ pc[p] = "returned" /\ call[p].op = "search"
  /\ searched' = [searched EXCEPT ![p] = retval[p]]
  /\ UNCHANGED <<globals, payload, resubmitted, r_hash, contact, issued, http,
                 logged, result, aside>>
  /\ IF is_error(retval[p].status_code)
       THEN /\ raise_in_try(p, HTTPException(502, "HubSpot search error"))
            /\ UNCHANGED transport
       ELSE LET cid   == first_id(retval[p].results)
                props == call[p].props
            IN IF cid # None /\ Len(cid) > 0
                 THEN begin_call(p, [op |-> "update", email |-> call[p].email,
                                     id |-> cid, props |-> props])
                 ELSE begin_call(p, [op |-> "create", email |-> call[p].email,
                                     id |-> <<>>, props |-> props])

\* hubspot_update_contact after the transport returned
hubspot_update_contact(p) ==
  /\ pc[p] = "returned" /\ call[p].op = "update"
  /\ UNCHANGED <<globals, payload, resubmitted, r_hash, contact, searched, issued, http,
                 logged, result, transport, aside>>
  /\ IF is_error(retval[p].status_code)
       THEN raise_in_try(p, HTTPException(502, "HubSpot update error"))
       ELSE upsert_returns(p, [action |-> "updated", id |-> call[p].id])

\* hubspot_create_contact after the transport returned
hubspot_create_contact(p) ==
  /\ pc[p] = "returned" /\ call[p].op = "create"
  /\ UNCHANGED <<globals, payload, resubmitted, r_hash, contact, searched, issued, http,
                 logged, result, transport, aside>>
  /\ IF is_error(retval[p].status_code)
       THEN raise_in_try(p, HTTPException(502, "HubSpot create error"))
       ELSE upsert_returns(p, [action |-> "created", id |-> retval[p].id])

\* props = {k: v for k, v in contact.items() if v not in (None, "")}
props_of(c) == [k \in {k \in DOMAIN c : c[k] # None /\ Len(c[k]) > 0} |-> c[k]]

\* upsert_contact_to_hubspot up to its first HTTP request
upsert_contact_to_hubspot(p, c) ==
  LET email == lower(strip(IF "email" \in DOMAIN c /\ c["email"] # None
                             THEN c["email"] ELSE <<>>))
      props == props_of(c)
  IN IF Len(email) = 0
       THEN /\ upsert_returns(p, [action |-> "skipped", id |-> <<>>])
            /\ UNCHANGED transport
       ELSE begin_call(p, [op |-> "search", email |-> email, id |-> <<>>,
                           props |-> props])

(***************************************************************************)
(* Google Sheets row ingest                                                *)
(***************************************************************************)
Submission(pl) ==
  <<pl.spreadsheetId, pl.sheetName, pl.rowIndex, pl.headers, pl.values>>

\* POST /ingest/rows, from the secret check to the first database write or
\* HTTP request
ingest_rows_call(p, pl, x_bridge_secret) ==
  /\ pc[p] = "idle"
  /\ calls < MaxCalls
  /\ calls' = calls + 1
  /\ UNCHANGED <<HUBSPOT_ACCESS_TOKEN, events, crm, searched, issued, http, logged, aside>>
  /\ payload' = [payload EXCEPT ![p] = pl]
  /\ IF x_bridge_secret # BRIDGE_SECRET
       THEN /\ result' = [result EXCEPT ![p] =
                  Raised(HTTPException(401, "Invalid secret"))]
            /\ pc' = [pc EXCEPT ![p] = "done"]
            /\ UNCHANGED <<submitted, resubmitted, r_hash, contact, pending, transport>>
       ELSE LET headers == pl.headers
                values  == pl.values
                h       == row_hash(headers, values)
                c       == map_row_to_contact(headers, values, pl.mapping)
            IN /\ submitted' = submitted \cup {Submission(pl)}
               /\ resubmitted' = [resubmitted EXCEPT ![p] = Submission(pl) \in submitted]
               /\ r_hash' = [r_hash EXCEPT ![p] = h]
               /\ UNCHANGED result
               /\ IF already_processed(pl.spreadsheetId, pl.sheetName, pl.rowIndex, h)
                    THEN /\ pending' = [pending EXCEPT ![p] =
                               [action |-> "duplicate", hubspot_id |-> <<>>,
                                detail |-> "",
                                outcome |-> Returned("duplicate", NoUpsert)]]
                         /\ pc' = [pc EXCEPT ![p] = "log"]
                         /\ UNCHANGED <<contact, transport>>
                    ELSE /\ contact' = [contact EXCEPT ![p] = c]
                         /\ IF "email" \notin DOMAIN c
                              THEN /\ pending' = [pending EXCEPT ![p] =
                                         [action |-> "skipped", hubspot_id |-> <<>>,
                                          detail |-> "missing email",
                                          outcome |-> Returned("skipped", NoUpsert)]]
                                   /\ pc' = [pc EXCEPT ![p] = "log"]
                                   /\ UNCHANGED transport
                              ELSE upsert_contact_to_hubspot(p, c)

\* a call of POST /ingest/rows with any payload of the pool and any secret
ingest_rows(p) ==
  \E pl \in Payloads, x_bridge_secret \in Secrets :
    ingest_rows_call(p, pl, x_bridge_secret)

\* mutant: the INSERT is skipped when the key already has an event
log_event_once_per_key(p) ==
  /\ pc[p] = "log"
  /\ events' = IF already_processed(payload[p].spreadsheetId, payload[p].sheetName,
                                     payload[p].rowIndex, r_hash[p])
                 THEN events
                 ELSE Append(events,
                        event_row(payload[p].spreadsheetId, payload[p].sheetName,
                                  payload[p].rowIndex, r_hash[p], pending[p].action,
                                  pending[p].hubspot_id, pending[p].detail))
  /\ logged' = [logged EXCEPT ![p] = Append(@, pending[p].action)]
  /\ pc' = [pc EXCEPT ![p] = "return"]
  /\ UNCHANGED <<HUBSPOT_ACCESS_TOKEN, crm, calls, submitted, payload, resubmitted,
                 r_hash, contact, searched, issued, http, pending, result, transport,
                 aside>>

\* log_event: INSERT INTO events ... and commit
log_event(p) ==
  /\ pc[p] = "log"
  /\ events' = Append(events,
        event_row(payload[p].spreadsheetId, payload[p].sheetName, payload[p].rowIndex,
                  r_hash[p], pending[p].action, pending[p].hubspot_id, pending[p].detail))
  /\ logged' = [logged EXCEPT ![p] = Append(@, pending[p].action)]
  /\ pc' = [pc EXCEPT ![p] = "return"]
  /\ UNCHANGED <<HUBSPOT_ACCESS_TOKEN, crm, calls, submitted, payload, resubmitted,
                 r_hash, contact, searched, issued, http, pending, result, transport,
                 aside>>

\* the return or raise statement that follows each log_event in ingest_rows
respond(p) ==
  /\ pc[p] = "return"
  /\ result' = [result EXCEPT ![p] = pending[p].outcome]
  /\ pc' = [pc EXCEPT ![p] = "done"]
  /\ UNCHANGED <<globals, payload, resubmitted, r_hash, contact, searched, issued, http,
                 pending, logged, transport, aside>>

\* the worker is given back to the pool: the locals of the call are gone
release(p) ==
  /\ pc[p] = "done"
  /\ pc' = [pc EXCEPT ![p] = "idle"]
  /\ payload' = [payload EXCEPT ![p] = NoPayload]
  /\ resubmitted' = [resubmitted EXCEPT ![p] = FALSE]
  /\ r_hash' = [r_hash EXCEPT ![p] = <<>>]
  /\ contact' = [contact EXCEPT ![p] = NoContact]
  /\ searched' = [searched EXCEPT ![p] = NoResponse]
  /\ issued' = [issued EXCEPT ![p] = <<>>]
  /\ http' = [http EXCEPT ![p] = 0]
  /\ pending' = [pending EXCEPT ![p] = NoPending]
  /\ logged' = [logged EXCEPT ![p] = <<>>]
  /\ result' = [result EXCEPT ![p] = NoResult]
  /\ call' = [call EXCEPT ![p] = NoCall]
  /\ attempt' = [attempt EXCEPT ![p] = 0]
  /\ r' = [r EXCEPT ![p] = NoResponse]
  /\ retval' = [retval EXCEPT ![p] = NoResponse]
  /\ tries' = [tries EXCEPT ![p] = 0]
  /\ slept' = [slept EXCEPT ![p] = <<>>]
  /\ timedout' = [timedout EXCEPT ![p] = 0]
  /\ UNCHANGED <<globals, aside>>

(***************************************************************************)
(* The service, one call at a time                                         *)
(***************************************************************************)
\* contacts HubSpot may hold before the service starts
InitialCrm ==
  { <<>>,
    << [email |-> <<"a", "@", "b", ".", "c", "o">>, company |-> <<"O", "l", "d">>] >> }

NoArgs == [headers |-> <<>>, values |-> <<>>, mapping |-> NoneDict]

InitService ==
  /\ HUBSPOT_ACCESS_TOKEN \in {"", "pat-token"}
  /\ events = <<>>
  /\ crm \in InitialCrm
  /\ calls = 0
  /\ submitted = {}
  /\ pc = [p \in Procs |-> "idle"]
  /\ payload = [p \in Procs |-> NoPayload]
  /\ resubmitted = [p \in Procs |-> FALSE]
  /\ r_hash = [p \in Procs |-> <<>>]
  /\ contact = [p \in Procs |-> NoContact]
  /\ call = [p \in Procs |-> NoCall]
  /\ attempt = [p \in Procs |-> 0]
  /\ r = [p \in Procs |-> NoResponse]
  /\ retval = [p \in Procs |-> NoResponse]
  /\ tries = [p \in Procs |-> 0]
  /\ slept = [p \in Procs |-> <<>>]
  /\ timedout = [p \in Procs |-> 0]
  /\ searched = [p \in Procs |-> NoResponse]
  /\ issued = [p \in Procs |-> <<>>]
  /\ http = [p \in Procs |-> 0]
  /\ pending = [p \in Procs |-> NoPending]
  /\ logged = [p \in Procs |-> <<>>]
  /\ result = [p \in Procs |-> NoResult]

\* no direct call of map_row_to_contact is under way
MapIdle ==
  /\ m_args = NoArgs
  /\ m_called = FALSE
  /\ m_contact = NoContact

\* no direct call of row_hash is under way
HashIdle ==
  /\ h_args = NoArgs
  /\ h_called = FALSE
  /\ h_digest = <<>>

\* a table with no column and no row
NoTable == [columns |-> <<>>, rows |-> <<>>]

\* the watched file when it does not exist
NoFile == [exists |-> FALSE, size |-> 0, writing |-> FALSE]

\* the watcher has started and no event has been dispatched
WatcherStarted ==
  /\ now = 0
  /\ _last_event = 0
  /\ wpc = "idle"
  /\ polls = 0
  /\ last_size = -1
  /\ stable = 0
  /\ streak = 0
  /\ copies = 0
  /\ tmp = "none"
  /\ df = "None"
  /\ accepted = <<>>
  /\ last_dropped = -1
  /\ sent = FALSE
  /\ escaped = FALSE

\* no watcher runs
WatchIdle ==
  /\ file = NoFile
  /\ suffix = ".csv"
  /\ WatcherStarted

Init ==
  /\ InitService
  /\ MapIdle
  /\ HashIdle
  /\ sheet = NoTable
  /\ WatchIdle

\* a call is taken up only when no other call is in progress
sequential_ingest_rows(p) ==
  /\ \A q \in Procs : pc[q] = "idle"
  /\ ingest_rows(p)

Next ==
  \E p \in Procs :
    \/ sequential_ingest_rows(p)
    \/ request(p)
    \/ backoff(p)
    \/ hubspot_find_contact_by_email(p)
    \/ hubspot_update_contact(p)
    \/ hubspot_create_contact(p)
    \/ log_event(p)
    \/ respond(p)
    \/ release(p)

Spec == Init /\ [][Next]_vars

(***************************************************************************)
(* Calls served concurrently: each worker takes up a call whatever the     *)
(* other is doing                                                          *)
(***************************************************************************)
\* the calls that run concurrently carry the same row, hence the same key
ConcurrentPayloads == {Payload(0, RowA)}

\* one call for each worker
concurrent_ingest_rows(p) ==
  /\ calls < Cardinality(Procs)
  /\ \E pl \in ConcurrentPayloads : ingest_rows_call(p, pl, BRIDGE_SECRET)

InitConcurrent ==
  /\ Init
  /\ HUBSPOT_ACCESS_TOKEN = "pat-token"
  /\ crm = <<>>

NextConcurrent ==
  \E p \in Procs :
    \/ concurrent_ingest_rows(p)
    \/ request(p)
    \/ backoff(p)
    \/ hubspot_find_contact_by_email(p)
    \/ hubspot_update_contact(p)
    \/ hubspot_create_contact(p)
    \/ log_event(p)
    \/ respond(p)
    \/ release(p)

SpecConcurrent == InitConcurrent /\ [][NextConcurrent]_vars

(***************************************************************************)
(* The desktop watcher feeding the service (watch_excel.py,                *)
(* send_first_row): the first row of the watched file is submitted each    *)
(* time the file has been saved and read                                   *)
(***************************************************************************)
\* SECRET = os.getenv("BRIDGE_SECRET", "change-me")
SECRET == "change-me"

TableA ==
  [columns |-> << <<"E", "m", "a", "i", "l">>, <<"C", "o", "m", "p", "a", "n", "y">> >>,
   rows |-> << << <<"a", "@", "b", ".", "c", "o">>, <<"A", "c", "m", "e">> >> >>]

TableB ==
  [columns |-> << <<"E", "m", "a", "i", "l">>, <<"C", "o", "m", "p", "a", "n", "y">> >>,
   rows |-> << << <<"a", "@", "b", ".", "c", "o">>, <<"B", "o", "l", "t">> >> >>]

Tables == {TableA, TableB}

\* df.fillna("").astype(str) on one cell
fillna_str(cell) == IF cell = None THEN <<>> ELSE str(cell)

\* the payload send_first_row builds from a table that has a row
first_row_payload(df2) ==
  [spreadsheetId |-> "excel-desktop", sheetName |-> "Sheet1", rowIndex |-> 0,
   headers |-> [i \in 1..Len(df2.columns) |-> str(df2.columns[i])],
   values |-> [i \in 1..Len(df2.rows[1]) |-> fillna_str(df2.rows[1][i])],
   mapping |-> NoneDict]

\* the user saves the file with another content
save_file ==
  /\ sheet' \in Tables \ {sheet}
  /\ UNCHANGED <<globals, locals, transport, mapvars, hashvars, watchvars>>

\* send_first_row on the table read from the file, the service taking up the
\* request once the previous one is answered
send_first_row(p) ==
  /\ \A q \in Procs : pc[q] = "idle"
  /\ IF sheet.rows = <<>>
       THEN UNCHANGED vars
       ELSE ingest_rows_call(p, first_row_payload(sheet), SECRET)

InitSync ==
  /\ InitService
  /\ MapIdle
  /\ HashIdle
  /\ sheet \in Tables
  /\ WatchIdle

NextSync ==
  \/ save_file
  \/ \E p \in Procs :
       \/ send_first_row(p)
       \/ request(p)
       \/ backoff(p)
       \/ hubspot_find_contact_by_email(p)
       \/ hubspot_update_contact(p)
       \/ hubspot_create_contact(p)
       \/ log_event(p)
       \/ respond(p)
       \/ release(p)

SpecSync == InitSync /\ [][NextSync]_vars

(***************************************************************************)
(* The desktop watcher reading the file (watch_excel.py): the debounce     *)
(* gate, wait_until_stable, copy_to_temp and read_table_any, against a     *)
(* program that writes the file                                            *)
(***************************************************************************)
READ_RETRIES == 40

DEBOUNCE_SECS == 1

\* default of the parameter checks of wait_until_stable
checks == 3

\* time.monotonic() is read in ticks of half a second
TicksPerSec == 2

\* the clock is followed for MaxTicks ticks
MaxTicks == 4

\* size of the file once it is written in full; it grows from 0 while written
FullSize == 2

Suffixes == {".csv", ".xlsx", ".txt"}

\* the FileSystemEvent types FileHandler implements
EventTypes == {"modified", "created", "moved"}

\* what the watcher leaves alone
service == <<globals, locals, transport, mapvars, hashvars, sheet>>
gatevars == <<now, _last_event, accepted, last_dropped>>
readvars == <<polls, last_size, stable, streak, copies, df, sent, escaped>>

Min(a, b) == IF a <= b THEN a ELSE b

\* a write to the file while shutil.copyfile is reading it tears the copy
torn_by_write == IF wpc = "copying" THEN "torn" ELSE tmp

\* another program opens the file for writing, which truncates it
open_for_write ==
  /\ ~file.writing
  /\ file' = [exists |-> TRUE, size |-> 0, writing |-> TRUE]
  /\ tmp' = torn_by_write
  /\ UNCHANGED <<service, suffix, gatevars, wpc, readvars>>

\* it writes part of the content
write_part ==
  /\ file.writing /\ file.size < FullSize - 1
  /\ file' = [file EXCEPT !.size = @ + 1]
  /\ tmp' = torn_by_write
  /\ UNCHANGED <<service, suffix, gatevars, wpc, readvars>>

\* it writes the rest and closes the file
close_file ==
  /\ file.writing /\ file.size = FullSize - 1
  /\ file' = [exists |-> TRUE, size |-> FullSize, writing |-> FALSE]
  /\ tmp' = torn_by_write
  /\ UNCHANGED <<service, suffix, gatevars, wpc, readvars>>

\* it deletes the file or renames it away
remove_file ==
  /\ file.exists /\ ~file.writing
  /\ file' = NoFile
  /\ tmp' = torn_by_write
  /\ UNCHANGED <<service, suffix, gatevars, wpc, readvars>>

\* it renames a file written in full to the watched name
move_into_place ==
  /\ ~file.exists
  /\ file' = [exists |-> TRUE, size |-> FullSize, writing |-> FALSE]
  /\ UNCHANGED <<service, suffix, gatevars, wpc, tmp, readvars>>

\* time passes; the clock is read only when an event is dispatched, so it is
\* advanced between two dispatches
tick ==
  /\ wpc = "idle"
  /\ now < MaxTicks
  /\ now' = now + 1
  /\ UNCHANGED <<service, file, suffix, _last_event, accepted, last_dropped, wpc, tmp,
                 readvars>>

\* mutant: the comparison of the gate is inverted
debounced_inverted(t, last) == t - last >= DEBOUNCE_SECS * TicksPerSec

\* now - _last_event < DEBOUNCE_SECS
debounced(t, last) == t - last < DEBOUNCE_SECS * TicksPerSec

\* handle_change up to the call of read_table_any
handle_change ==
  IF debounced(now, _last_event)
    THEN /\ last_dropped' = now - _last_event
         /\ UNCHANGED <<service, file, suffix, now, _last_event, accepted, wpc, tmp,
                        readvars>>
    ELSE /\ _last_event' = now
         /\ accepted' = IF accepted = <<>> THEN <<now>>
                        ELSE <<accepted[Len(accepted)], now>>
         /\ last_dropped' = -1
         /\ wpc' = "stat"
         /\ polls' = 0 /\ last_size' = -1 /\ stable' = 0 /\ streak' = 0
         /\ copies' = 0
         /\ df' = "None"
         /\ sent' = FALSE
         /\ UNCHANGED <<service, file, suffix, now, tmp, escaped>>

\* FileHandler.on_modified, on_created and on_moved, called by the dispatcher
\* thread when it is not inside an earlier call
on_event(type) ==
  /\ wpc = "idle"
  /\ \E is_directory \in BOOLEAN, name_is_target \in BOOLEAN :
       IF ~is_directory /\ name_is_target
         THEN handle_change
         ELSE UNCHANGED vars

\* one iteration of the loop of wait_until_stable, or the return False after
\* the loop, which makes copy_to_temp and read_table_any return None; the
\* locals are gone once the function has returned
wait_until_stable ==
  /\ wpc = "stat"
  /\ IF polls = READ_RETRIES
       THEN /\ wpc' = "idle"
            /\ df' = "None"
            /\ polls' = 0 /\ last_size' = -1 /\ stable' = 0 /\ streak' = 0
       ELSE /\ IF ~file.exists
                 THEN /\ streak' = 0
                      /\ polls' = polls + 1
                      /\ UNCHANGED <<last_size, stable, wpc>>
                 ELSE /\ streak' = IF file.size = 0 THEN 0
                                   ELSE IF streak > 0 /\ file.size = last_size
                                          THEN Min(streak + 1, checks + 1)
                                          ELSE 1
                      /\ IF file.size = last_size /\ file.size > 0
                           THEN IF stable + 1 >= checks
                                  THEN /\ wpc' = "copy"
                                       /\ polls' = 0 /\ last_size' = -1 /\ stable' = 0
                                  ELSE /\ stable' = stable + 1
                                       /\ polls' = polls + 1
                                       /\ UNCHANGED <<last_size, wpc>>
                           ELSE /\ stable' = 0
                                /\ last_size' = file.size
                                /\ polls' = polls + 1
                                /\ UNCHANGED wpc
            /\ UNCHANGED df
  /\ UNCHANGED <<service, file, suffix, gatevars, copies, tmp, sent, escaped>>

\* one iteration of the loop of copy_to_temp, up to the moment copyfile has
\* opened the file, or the return None after the loop
copy_to_temp ==
  /\ wpc = "copy"
  /\ IF copies = READ_RETRIES
       THEN /\ wpc' = "idle"
            /\ df' = "None"
            /\ copies' = 0 /\ streak' = 0
            /\ UNCHANGED tmp
       ELSE /\ \/ /\ file.exists
                  /\ wpc' = "copying"
                  /\ tmp' = IF file.writing THEN "torn" ELSE "whole"
                  /\ copies' = 0
               \/ /\ copies' = copies + 1
                  /\ UNCHANGED <<wpc, tmp>>
            /\ UNCHANGED <<df, streak>>
  /\ UNCHANGED <<service, file, suffix, gatevars, polls, last_size, stable, sent, escaped>>

\* shutil.copyfile has read the file to its end
copyfile_returns ==
  /\ wpc = "copying"
  /\ wpc' = "parse"
  /\ streak' = 0
  /\ UNCHANGED <<service, file, suffix, gatevars, tmp, polls, last_size, stable, copies,
                 df, sent, escaped>>

\* the try ... finally of read_table_any, and the test of its result in
\* handle_change
read_table_any ==
  /\ wpc = "parse"
  /\ tmp' = "none"
  /\ IF suffix \notin {".xlsx", ".xls", ".csv"}
       THEN /\ df' = "None"
            /\ wpc' = "idle"
            /\ UNCHANGED escaped
       ELSE \/ /\ df' \in (IF tmp = "whole" THEN {"table", "empty table"}
                                            ELSE {"partial table"})
               /\ wpc' = "send"
               /\ UNCHANGED escaped
            \/ /\ escaped' = TRUE
               /\ wpc' \in {"idle", "dead"}
               /\ UNCHANGED df
  /\ UNCHANGED <<service, file, suffix, gatevars, polls, last_size, stable, streak, copies,
                 sent>>

\* send_first_row as the watcher goes through it: nothing is posted for a
\* table without rows, and a failed request is caught
post_first_row ==
  /\ wpc = "send"
  /\ sent' = (df # "empty table")
  /\ wpc' = "idle"
  /\ UNCHANGED <<service, file, suffix, gatevars, polls, last_size, stable, streak, copies,
                 tmp, df, escaped>>

InitWatch ==
  /\ InitService
  /\ HUBSPOT_ACCESS_TOKEN = "pat-token"
  /\ crm = <<>>
  /\ MapIdle
  /\ HashIdle
  /\ sheet = NoTable
  /\ file \in {NoFile, [exists |-> TRUE, size |-> FullSize, writing |-> FALSE]}
  /\ suffix \in Suffixes
  /\ WatcherStarted

NextWatch ==
  \/ open_for_write
  \/ write_part
  \/ close_file
  \/ remove_file
  \/ move_into_place
  \/ tick
  \/ \E type \in EventTypes : on_event(type)
  \/ wait_until_stable
  \/ copy_to_temp
  \/ copyfile_returns
  \/ read_table_any
  \/ post_first_row

SpecWatch == InitWatch /\ [][NextWatch]_vars

(***************************************************************************)
(* map_row_to_contact alone, over every row and mapping within the bounds  *)
(***************************************************************************)
\* every sequence over S of length at most n
SeqsUpTo(S, n) == UNION {[1..k -> S] : k \in 0..n}

HeaderPool ==
  { <<"E", "m", "a", "i", "l">>,
    <<"E", "-", "M", "a", "i", "l">>,
    <<"F", "i", "r", "s", "t", " ", "N", "a", "m", "e">>,
    <<"f", "i", "r", "s", "t", "_", "n", "a", "m", "e">>,
    <<"C", "o", "m", "p", "a", "n", "y">> }

ValuePool ==
  { <<" ", "A", "@", "b", ".", "c", "o", " ">>, <<"A", "n", "n">>, <<>>, None }

MappingPool ==
  { NoneDict,
    EmptyDict,
    [k \in {"lastname"} |-> <<"F", "i", "r", "s", "t", " ", "N", "a", "m", "e">>],
    [k \in {"email"} |-> <<"e", "-", "m", "a", "i", "l">>],
    [k \in {"email", "firstname"} |->
       IF k = "email" THEN <<"E", "m", "a", "i", "l">>
                      ELSE <<"F", "I", "R", "S", "T", "N", "A", "M", "E">>],
    [k \in {"company"} |-> <<"P", "h", "o", "n", "e">>],
    [k \in {"owner"} |-> <<"E", "m", "a", "i", "l">>] }

InitMap ==
  /\ InitService
  /\ HUBSPOT_ACCESS_TOKEN = "pat-token"
  /\ crm = <<>>
  /\ m_args \in [headers : SeqsUpTo(HeaderPool, MaxCols),
                 values : SeqsUpTo(ValuePool, MaxCols),
                 mapping : MappingPool]
  /\ m_called = FALSE
  /\ m_contact = NoContact
  /\ HashIdle
  /\ sheet = NoTable
  /\ WatchIdle

call_map_row_to_contact ==
  /\ ~m_called
  /\ m_called' = TRUE
  /\ m_contact' = map_row_to_contact(m_args.headers, m_args.values, m_args.mapping)
  /\ UNCHANGED <<globals, locals, transport, m_args, hashvars, sheet, watchvars>>

NextMap == call_map_row_to_contact

SpecMap == InitMap /\ [][NextMap]_vars

(***************************************************************************)
(* row_hash alone, over every pair of header and value lists within the    *)
(* bounds                                                                  *)
(***************************************************************************)
HashTexts ==
  { <<"a">>, <<"b">>, <<"a", "b">>, <<"a", "|", "b">> }

HashInputs ==
  [headers : SeqsUpTo(HashTexts, MaxCols), values : SeqsUpTo(HashTexts, MaxCols)]

InitHash ==
  /\ InitService
  /\ HUBSPOT_ACCESS_TOKEN = "pat-token"
  /\ crm = <<>>
  /\ MapIdle
  /\ h_args \in HashInputs
  /\ h_called = FALSE
  /\ h_digest = <<>>
  /\ sheet = NoTable
  /\ WatchIdle

call_row_hash ==
  /\ ~h_called
  /\ h_called' = TRUE
  /\ h_digest' = row_hash(h_args.headers, h_args.values)
  /\ UNCHANGED <<globals, locals, transport, mapvars, h_args, sheet, watchvars>>

NextHash == call_row_hash

SpecHash == InitHash /\ [][NextHash]_vars

(***************************************************************************)
(* Properties                                                              *)
(***************************************************************************)
\* the events logged under the key of payload pl
events_of(pl) ==
  LET h == row_hash(pl.headers, pl.values)
  IN {i \in 1..Len(events) :
        /\ events[i].spreadsheet_id = pl.spreadsheetId
        /\ events[i].sheet_name = pl.sheetName
        /\ events[i].row_index = pl.rowIndex
        /\ events[i].row_hash = h}

\* two rows of the events table have the same key
same_key(e, f) ==
  /\ e.spreadsheet_id = f.spreadsheet_id
  /\ e.sheet_name = f.sheet_name
  /\ e.row_index = f.row_index
  /\ e.row_hash = f.row_hash

non_duplicates_of(pl) == {i \in events_of(pl) : events[i].action # "duplicate"}

\* the call of worker p passed the secret check
authenticated(p) == result[p].exc.status_code # 401

retryable(status_code) == status_code >= 500 \/ status_code = 429

\* C1: with calls made one after the other, a submission made before is
\* answered duplicate:true, and the events table holds at most one
\* non-duplicate event for a submission, exactly one once its first call has
\* logged
C1_Idempotency ==
  /\ \A p \in Procs :
       /\ (pc[p] = "done" /\ resubmitted[p]) => result[p].kind = "duplicate"
       /\ (pc[p] \in {"return", "done"} /\ authenticated(p)) =>
             Cardinality(non_duplicates_of(payload[p])) = 1
  /\ \A i, j \in 1..Len(events) :
       (same_key(events[i], events[j]) /\ events[i].action # "duplicate"
          /\ events[j].action # "duplicate") => i = j
  /\ (\A q \in Procs : pc[q] = "idle") =>
       \A pl \in Payloads :
         Submission(pl) \in submitted => Cardinality(non_duplicates_of(pl)) = 1

\* a third submission of the same row: answered duplicate, two duplicate
\* events and still one non-duplicate event
C1_Witness ==
  \E p \in Procs :
    /\ pc[p] = "done" /\ resubmitted[p] /\ result[p].kind = "duplicate"
    /\ Cardinality(events_of(payload[p])) = 3
    /\ Cardinality(non_duplicates_of(payload[p])) = 1

\* C2: a call that passed authentication and has answered has appended
\* exactly one event, the last of the table, and its action is the result the
\* caller received
C2_OneEventMatchingResult ==
  \A p \in Procs :
    (pc[p] = "done" /\ authenticated(p)) =>
      /\ Len(logged[p]) = 1
      /\ Len(events) >= 1
      /\ events[Len(events)].action = logged[p][1]
      /\ Len(events) \in events_of(payload[p])
      /\ result[p].kind \in {"duplicate", "skipped", "upsert", "error"}
      /\ result[p].kind = "duplicate" <=> logged[p][1] = "duplicate"
      /\ result[p].kind = "skipped" <=> logged[p][1] = "skipped"
      /\ result[p].kind = "error" <=> logged[p][1] = "error"
      /\ result[p].kind = "upsert" =>
            /\ logged[p][1] \in {"created", "updated"}
            /\ logged[p][1] = result[p].upsert.action
            /\ events[Len(events)].hubspot_id = result[p].upsert.id

C2_Witness ==
  \E p \in Procs :
    /\ pc[p] = "done" /\ result[p].kind = "upsert"
    /\ result[p].upsert.action = "updated"
    /\ logged[p] = <<"updated">>

\* C3: a call that ends in duplicate or skipped has sent no CRM request, and
\* a call that has sent one was for a row with no earlier event and a
\* non-empty mapped email
C3_NoCrmOnDuplicateOrSkipped ==
  \A p \in Procs :
    /\ (Len(logged[p]) > 0 /\ logged[p][1] \in {"duplicate", "skipped"}) =>
          http[p] = 0 /\ issued[p] = <<>>
    /\ (pc[p] = "done" /\ result[p].kind \in {"duplicate", "skipped"}) =>
          http[p] = 0 /\ issued[p] = <<>>
    /\ (http[p] > 0 \/ issued[p] # <<>>) =>
          /\ "email" \in DOMAIN contact[p]
          /\ Len(contact[p]["email"]) > 0
          /\ Cardinality(events_of(payload[p])) = Len(logged[p])

\* a resubmitted row that maps to an email, answered without the CRM
C3_Witness ==
  \E p \in Procs :
    /\ pc[p] = "done" /\ result[p].kind = "duplicate"
    /\ "email" \in DOMAIN map_row_to_contact(payload[p].headers, payload[p].values,
                                             payload[p].mapping)
    /\ http[p] = 0

is_write(c) == c.op \in {"create", "update"}

\* C4: the first CRM call of an upsert is the email search; it is followed
\* by at most one write, exactly one once the call has gone on after a
\* successful search; the write is an update of the first id found when the
\* search found a contact and a create when it found none, and the result
\* returned is updated with that id, or created with the id of the new contact
C4_SearchThenOneWrite ==
  \A p \in Procs :
    LET writes == SelectSeq(issued[p], is_write)
        ok     == searched[p].status_code # 0 /\ searched[p].status_code < 400
        found  == Len(searched[p].results) > 0
    IN /\ issued[p] # <<>> =>
             /\ issued[p][1].op = "search"
             /\ issued[p][1].email = contact[p]["email"]
       /\ \A i \in 2..Len(issued[p]) : is_write(issued[p][i])
       /\ Len(writes) <= 1
       /\ writes # <<>> => ok
       /\ (ok /\ pc[p] \in {"log", "return", "done"}) => Len(writes) = 1
       /\ (writes # <<>> /\ found) =>
             /\ writes[1].op = "update"
             /\ writes[1].id = searched[p].results[1]
       /\ (writes # <<>> /\ ~found) => writes[1].op = "create"
       /\ (pc[p] = "done" /\ result[p].kind = "upsert") =>
             /\ Len(writes) = 1
             /\ found => result[p].upsert =
                            [action |-> "updated", id |-> searched[p].results[1]]
             /\ ~found =>
                   /\ result[p].upsert.action = "created"
                   /\ \E i \in 1..Len(crm) :
                         /\ ContactId(i) = result[p].upsert.id
                         /\ crm[i] = writes[1].props

C4_Witness ==
  \E p \in Procs :
    /\ pc[p] = "done"
    /\ Len(searched[p].results) > 0
    /\ result[p].upsert = [action |-> "updated", id |-> ContactId(1)]
    /\ Len(issued[p]) = 2 /\ issued[p][2].op = "update"

\* C5: a logical call makes at most 5 HTTP attempts; it goes on to a backoff
\* and a further attempt only after a response with status >= 500 or 429; a
\* response with any other status is returned at once; when the 5th response
\* is still retryable the call returns it
C5_BoundedRetry ==
  \A p \in Procs :
    /\ tries[p] <= 5
    /\ pc[p] = "sleep" => retryable(r[p].status_code)
    /\ (pc[p] = "request" /\ tries[p] > 0) => retryable(r[p].status_code)
    /\ (r[p].status_code # 0 /\ ~retryable(r[p].status_code)) => retval[p] = r[p]
    /\ retval[p] # NoResponse =>
          /\ retval[p] = r[p]
          /\ ~retryable(r[p].status_code) \/ tries[p] = 5
    /\ (tries[p] = 5 /\ timedout[p] = 0 /\ pc[p] # "sleep") => retval[p] = r[p]

\* the 5th response was retryable and is what the call returned
C5_Witness ==
  \E p \in Procs :
    /\ tries[p] = 5 /\ retryable(r[p].status_code)
    /\ retval[p] = r[p] /\ pc[p] = "returned"

\* C6: no sleep precedes the first attempt, and a logical call that has
\* returned after k attempts has slept k-1 times, 0.5 s, 1 s, 2 s, 4 s in
\* that order (none after the last attempt)
C6_SleepsBetweenAttempts ==
  \A p \in Procs :
    /\ tries[p] = 0 => slept[p] = <<>>
    /\ retval[p] # NoResponse =>
          slept[p] = SubSeq(<<500, 1000, 2000, 4000>>, 1, tries[p] - 1)

\* C7: when the search, create or update has come back with a status >= 400,
\* the call logs exactly one event, an error event, does so before the
\* failure reaches the caller, and the caller receives the failure
C7_UpstreamErrorLogged ==
  \A p \in Procs :
    retval[p].status_code >= 400 =>
      /\ pc[p] \in {"returned", "log", "return", "done"}
      /\ pc[p] \in {"returned", "log"} => logged[p] = <<>> /\ result[p] = NoResult
      /\ pc[p] = "log" => pending[p].action = "error"
      /\ pc[p] = "return" =>
            /\ logged[p] = <<"error">>
            /\ events[Len(events)].action = "error"
            /\ Len(events) \in events_of(payload[p])
            /\ result[p] = NoResult
      /\ pc[p] = "done" =>
            /\ logged[p] = <<"error">>
            /\ events[Len(events)].action = "error"
            /\ result[p].kind = "error"
            /\ result[p].exc.status_code = 502

\* a create refused with 404: one error event, the failure surfaced
C7_Witness ==
  \E p \in Procs :
    /\ pc[p] = "done" /\ call[p].op = "create"
    /\ retval[p].status_code = 404
    /\ logged[p] = <<"error">> /\ result[p].kind = "error"

\* C8: an attempt that timed out and was not the 5th is followed by a
\* backoff and a further attempt of the same logical call
C8_TimeoutRetried ==
  \A p \in Procs :
    (timedout[p] >= 1 /\ timedout[p] < 5) =>
      pc[p] = "sleep" \/ tries[p] > timedout[p]

\* C9: with no token configured, no HTTP request is sent and no backoff is
\* slept, and an upsert of a contact with an email ends in a failure that
\* is not the one raised for an upstream failure
C9_MissingTokenFailsFast ==
  HUBSPOT_ACCESS_TOKEN = "" =>
    \A p \in Procs :
      /\ http[p] = 0 /\ tries[p] = 0 /\ issued[p] = <<>> /\ slept[p] = <<>>
      /\ pc[p] \notin {"request", "sleep", "returned"}
      /\ (pc[p] = "done" /\ "email" \in DOMAIN contact[p]) =>
            /\ result[p].kind = "error"
            /\ result[p].exc.type = "HTTPException"
            /\ result[p].exc.status_code = 400
            /\ result[p].exc.detail = "HUBSPOT_ACCESS_TOKEN missing"
            /\ result[p].exc \notin
                 {HTTPException(502, d) : d \in {"HubSpot search error",
                                                 "HubSpot create error",
                                                 "HubSpot update error"}}

C9_Witness ==
  \E p \in Procs :
    /\ HUBSPOT_ACCESS_TOKEN = ""
    /\ pc[p] = "done" /\ "email" \in DOMAIN contact[p]
    /\ result[p].exc.status_code = 400 /\ http[p] = 0

\* every field of contact c was resolved through a header that mapping names
resolved_through_mapping(args, c) ==
  \A f \in DOMAIN c :
    /\ f \in DOMAIN args.mapping
    /\ \E i \in 1..Len(args.headers) :
         /\ _norm(args.headers[i]) = _norm(args.mapping[f])
         /\ i <= Len(args.values)
         /\ args.values[i] # None
         /\ c[f] = IF f = "email" THEN lower(strip(args.values[i]))
                                  ELSE args.values[i]

\* C10 as stated: whenever a mapping is supplied, whatever its keys, every
\* field of the result was resolved through a header named by the mapping
C10_AnyMappingSuppressesAliases ==
  (m_called /\ m_args.mapping # NoneDict) =>
    resolved_through_mapping(m_args, m_contact)

\* C10 as amended: whenever a mapping with at least one key is supplied,
\* every field of the result was resolved through a header named by the
\* mapping, so a field the mapping does not cover is absent
C10_NonEmptyMappingSuppressesAliases ==
  (m_called /\ m_args.mapping # NoneDict /\ DOMAIN m_args.mapping # {}) =>
    resolved_through_mapping(m_args, m_contact)

\* lastname mapped to "First Name" over headers Email, First Name: the result
\* is lastname alone, although Email is an alias of email
C10_Witness ==
  /\ m_called
  /\ m_args.mapping = [k \in {"lastname"} |-> <<"F", "i", "r", "s", "t", " ", "N", "a", "m", "e">>]
  /\ m_args.headers = << <<"E", "m", "a", "i", "l">>,
                         <<"F", "i", "r", "s", "t", " ", "N", "a", "m", "e">> >>
  /\ m_args.values = << <<" ", "A", "@", "b", ".", "c", "o", " ">>, <<"A", "n", "n">> >>
  /\ m_contact = [k \in {"lastname"} |-> <<"A", "n", "n">>]

\* the positions of the headers that are an alias of canonical field f
alias_headers(headers, f) ==
  {i \in 1..Len(headers) :
     \E a \in HEADER_ALIASES[f] : _norm(headers[i]) = _norm(a)}

\* C11: with no explicit mapping, every canonical field takes the value under
\* the first header, in header order, that is an alias of the field, whatever
\* later alias headers hold; when that header lies beyond the end of the
\* values, or its value is empty, the field is absent from the result
C11_FirstAliasHeaderWins ==
  (m_called /\ ~mapping_truthy(m_args.mapping)) =>
    \A f \in Fields :
      LET hits == alias_headers(m_args.headers, f)
          i == CHOOSE i \in hits : \A j \in hits : i <= j
          v == IF hits # {} /\ i <= Len(m_args.values) /\ m_args.values[i] # None
                 THEN m_args.values[i] ELSE <<>>
          w == IF f = "email" THEN lower(strip(v)) ELSE v
      IN IF Len(w) = 0 THEN f \notin DOMAIN m_contact
                       ELSE f \in DOMAIN m_contact /\ m_contact[f] = w

\* headers E-Mail, Email over values "Ann", " A@b.co ": email is "ann", the
\* value under the first of the two alias headers
C11_Witness ==
  /\ m_called
  /\ m_args.mapping = NoneDict
  /\ m_args.headers = << <<"E", "-", "M", "a", "i", "l">>, <<"E", "m", "a", "i", "l">> >>
  /\ m_args.values = << <<"A", "n", "n">>, <<" ", "A", "@", "b", ".", "c", "o", " ">> >>
  /\ m_contact = [k \in {"email"} |-> <<"a", "n", "n">>]

\* C12: the record map_row_to_contact returns and the property bag the upsert
\* builds from it hold no empty value, the bag holds exactly the record's
\* fields, and email, when present, has no upper-case letter and neither
\* starts nor ends with whitespace
C12_NoEmptyValueEmailClean ==
  m_called =>
    LET bag == props_of(m_contact)
    IN /\ \A k \in DOMAIN m_contact : m_contact[k] # None /\ Len(m_contact[k]) > 0
       /\ DOMAIN bag = DOMAIN m_contact
       /\ \A k \in DOMAIN bag : bag[k] = m_contact[k] /\ Len(bag[k]) > 0
       /\ "email" \in DOMAIN m_contact =>
            LET e == m_contact["email"]
            IN /\ \A i \in 1..Len(e) : e[i] \notin Range(UpperChars)
               /\ ~isspace(e[1]) /\ ~isspace(e[Len(e)])

\* headers Email, Company over values " A@b.co ", "": the record and the bag
\* hold email alone, as "a@b.co"
C12_Witness ==
  /\ m_called
  /\ m_args.mapping = NoneDict
  /\ m_args.headers = << <<"E", "m", "a", "i", "l">>, <<"C", "o", "m", "p", "a", "n", "y">> >>
  /\ m_args.values = << <<" ", "A", "@", "b", ".", "c", "o", " ">>, <<>> >>
  /\ DOMAIN props_of(m_contact) = {"email"}
  /\ props_of(m_contact)["email"] = <<"a", "@", "b", ".", "c", "o">>

\* C13: the fingerprint of a (headers, values) pair is shared by no other
\* pair: two pairs have the same fingerprint exactly when they have the same
\* headers and the same values, in the same order and with the same split
C13_FingerprintInjective ==
  h_called =>
    \A other \in HashInputs :
      (row_hash(other.headers, other.values) = h_digest) <=> (other = h_args)

\* the events under the key of worker p's payload that earlier calls logged
\* with action "error"
earlier_errors(p) ==
  {i \in events_of(payload[p]) :
     events[i].action = "error" /\ i <= Len(events) - Len(logged[p])}

\* C18: with calls made one after the other, a call that passed the secret
\* check and whose key already has an event with action "error" sends no CRM
\* request, logs "duplicate" and nothing else, and is answered duplicate
C18_ErroredKeyStaysDuplicate ==
  \A p \in Procs :
    (pc[p] # "idle" /\ authenticated(p) /\ earlier_errors(p) # {}) =>
      /\ pc[p] \in {"log", "return", "done"}
      /\ http[p] = 0 /\ issued[p] = <<>>
      /\ pc[p] = "log" => pending[p].action = "duplicate"
      /\ pc[p] \in {"return", "done"} => logged[p] = <<"duplicate">>
      /\ pc[p] = "done" => result[p].kind = "duplicate"

\* a row whose first call failed at the CRM, submitted twice more: both later
\* calls answered duplicate, and no event of the key records a sync
C18_Witness ==
  \E p \in Procs :
    /\ pc[p] = "done" /\ result[p].kind = "duplicate" /\ http[p] = 0
    /\ earlier_errors(p) # {}
    /\ Cardinality(events_of(payload[p])) = 3
    /\ \A i \in events_of(payload[p]) : events[i].action \in {"error", "duplicate"}

\* worker p is past the duplicate check on the path that goes to the CRM or
\* logs a non-duplicate event, and has not logged yet
past_check(p) ==
  \/ pc[p] \in {"request", "sleep", "returned"}
  \/ pc[p] = "log" /\ pending[p].action # "duplicate"

\* worker p passed the duplicate check although the same submission had been
\* received before: the earlier call had passed the check and not yet logged
raced(p) ==
  /\ resubmitted[p]
  /\ \/ past_check(p)
     \/ pc[p] \in {"return", "done"} /\ pending[p].action # "duplicate"

\* C19: with calls served concurrently, a call that passed the duplicate
\* check while an earlier call with the same key had not yet logged is not
\* answered duplicate and logs a non-duplicate event of its own, so that once
\* both calls have logged the key has two non-duplicate events
C19_RaceLogsTwice ==
  \A p \in Procs :
    (raced(p) /\ pc[p] \in {"return", "done"}) =>
      /\ logged[p] # <<"duplicate">>
      /\ pc[p] = "done" => result[p].kind # "duplicate"
      /\ \/ \E q \in Procs \ {p} : payload[q] = payload[p] /\ past_check(q)
         \/ Cardinality(non_duplicates_of(payload[p])) >= 2

\* two concurrent calls with the same key, no contact in the CRM: both
\* created a contact, the CRM holds two contacts with the same email and the
\* key has two events with action "created"
C19_Witness ==
  /\ \A p \in Procs : pc[p] = "done" /\ result[p].upsert.action = "created"
  /\ \E p, q \in Procs : p # q /\ payload[p] = payload[q] /\ raced(q)
  /\ Len(crm) = 2 /\ crm[1]["email"] = crm[2]["email"]
  /\ \E p \in Procs :
       /\ Cardinality(non_duplicates_of(payload[p])) = 2
       /\ \A i \in non_duplicates_of(payload[p]) : events[i].action = "created"

\* the events logged for the first row of table t with one of the actions
synced_events(t, actions) ==
  {i \in events_of(first_row_payload(t)) : events[i].action \in actions}

\* the CRM contacts with the email of the first row of table t hold its company
crm_holds(t) ==
  /\ crm # <<>>
  /\ \A k \in 1..Len(crm) :
       /\ crm[k]["email"] = t.rows[1][1]
       /\ crm[k]["company"] = t.rows[1][2]

\* C20: when the first row has been synced with content A, then with content
\* B, and the file holds A again, the watcher's next submission carries the
\* key of the first one, is answered duplicate without any CRM request, and
\* the CRM keeps the values of B
C20_RevertedRowStaysStale ==
  \A p \in Procs :
    LET n == Len(events)
    IN (/\ pc[p] = "done" /\ payload[p] = first_row_payload(TableA)
        /\ sheet = TableA
        /\ n >= 3
        /\ (n - 1) \in synced_events(TableB, {"created", "updated"})
        /\ \E i \in 1..(n - 2) : i \in synced_events(TableA, {"created", "updated"}))
       => /\ result[p].kind = "duplicate"
          /\ http[p] = 0 /\ issued[p] = <<>>
          /\ n \in synced_events(TableA, {"duplicate"})
          /\ crm_holds(TableB) /\ ~crm_holds(TableA)

\* the file saved with A, B and A again, each save submitted: created,
\* updated, duplicate, and the CRM holds the company of B
C20_Witness ==
  \E p \in Procs :
    /\ pc[p] = "done" /\ payload[p] = first_row_payload(TableA) /\ sheet = TableA
    /\ Len(events) = 3
    /\ events[1].action = "created" /\ events[1].row_hash = r_hash[p]
    /\ events[2].action = "updated" /\ events[2].row_hash # r_hash[p]
    /\ events[3].action = "duplicate" /\ events[3].row_hash = r_hash[p]
    /\ result[p].kind = "duplicate" /\ http[p] = 0
    /\ crm_holds(TableB)

\* C14 as stated: two accepted events are more than DEBOUNCE_SECS apart
C14_AcceptedMoreThanWindowApart ==
  Len(accepted) = 2 => accepted[2] - accepted[1] > DEBOUNCE_SECS * TicksPerSec

\* C14 as amended: two accepted events are at least DEBOUNCE_SECS apart, and
\* an event is dropped only when less than DEBOUNCE_SECS has passed since
\* the last accepted one
C14_AcceptedAtLeastWindowApart ==
  /\ Len(accepted) = 2 => accepted[2] - accepted[1] >= DEBOUNCE_SECS * TicksPerSec
  /\ last_dropped < DEBOUNCE_SECS * TicksPerSec
  /\ accepted # <<>> => _last_event = accepted[Len(accepted)]

\* an event dispatched exactly DEBOUNCE_SECS after the last accepted one has
\* been accepted and is being processed
C14_Witness ==
  /\ Len(accepted) = 2
  /\ accepted[2] - accepted[1] = DEBOUNCE_SECS * TicksPerSec
  /\ wpc = "stat"

\* C15: read_table_any never hands handle_change a table parsed from a copy
\* taken while the file was being written
C15_NoTableFromPartialCopy == df # "partial table"

\* C16: no exception leaves handle_change, the dispatcher thread stays alive,
\* and an event whose read gave None has posted nothing
C16_HandleChangeAlwaysReturns ==
  /\ ~escaped
  /\ wpc # "dead"
  /\ (wpc = "idle" /\ df = "None") => ~sent

\* C17: wait_until_stable makes at most READ_RETRIES polls, and when it has
\* returned True its latest checks + 1 polls all found the file present with
\* one same non-zero size
C17_TrueOnlyAfterSteadyPolls ==
  /\ polls <= READ_RETRIES
  /\ wpc \in {"copy", "copying"} => streak >= checks + 1

TypeOK ==
  /\ calls \in 0..MaxCalls
  /\ \A p \in Procs :
       /\ pc[p] \in {"idle", "request", "sleep", "returned", "log", "return", "done"}
       /\ attempt[p] \in 0..(RetryRange - 1)

====
